---- MODULE Spec2Model ----
(***************************************************************************)
(* Model of MatterportLightingSystem (src/load_add_light.py): the parser   *)
(* of .house files, the per-region light placement, the extraction of the  *)
(* light plan and its rotation and scaling into the Isaac Sim frame.       *)
(*                                                                         *)
(* Python floats are modelled as exact rationals <<n, d>> (d > 0, lowest   *)
(* terms); rounding is not modelled.  A Python value that may be None is a *)
(* sequence of length 0 (None) or 1 (the value).  Python dicts and lists   *)
(* shared between the plan dictionaries are modelled once, as the shared   *)
(* object: `lights` is the heap of light_info dicts, `levels` the one      *)
(* 'levels' dict that every shallow copy of the plan refers to.            *)
(***************************************************************************)
EXTENDS Integers, Sequences, FiniteSets, TLC

VARIABLES
    pc,                     \* position in process_house
    line,                   \* parse_house_file: tokens of the line just read
    line_num,               \* parse_house_file: number of the line just read
    house_data,             \* [header, levels, regions]
    warnings,               \* line numbers of the warnings printed
    region_i,               \* extract_light_positions: index of the next region
    lights,                 \* heap of light_info dicts, in creation order
    levels,                 \* light_positions['levels']: groups in insertion order
    light_positions,        \* the dict bound to light_positions in process_house
    mesh_transform,         \* result of get_house_mesh_transform
    scaled_light_positions, \* result of scale_light_positions
    err,                    \* exception that left process_house, or "none"
    files,                  \* process_house: which of the two files were found
    stage_loaded,           \* load_usd_file has opened the stage
    room_lights,            \* result of create_matterport_lights, once it returned
    ambient_lights,         \* result of add_ambient_lighting, once it returned
    result,                 \* what process_house returned, or "none"
    file,                   \* the lines of the .house file, where it is read twice
    first_doc               \* the document of the first of two parses

\* the state of the host: files, stage and scene, and the file read twice
host == <<files, stage_loaded, room_lights, ambient_lights, result, file, first_doc>>

vars == <<pc, line, line_num, house_data, warnings, region_i, lights, levels,
          light_positions, mesh_transform, scaled_light_positions, err, files,
          stage_loaded, room_lights, ambient_lights, result, file, first_doc>>

(***************************************************************************)
(* Bounds of the model.                                                    *)
(***************************************************************************)
MaxLines == 4

(***************************************************************************)
(* Float arithmetic, as exact rationals.                                   *)
(***************************************************************************)
Abs(x) == IF x < 0 THEN -x ELSE x

RECURSIVE GCD(_, _)
GCD(a, b) == IF b = 0 THEN a ELSE GCD(b, a % b)

Rat(n, d) ==
    LET s == IF d < 0 THEN -1 ELSE 1
        g == GCD(Abs(n), Abs(d))
    IN  <<(s * n) \div g, (s * d) \div g>>

R(n) == <<n, 1>>

RAdd(a, b) == Rat(a[1] * b[2] + b[1] * a[2], a[2] * b[2])

RSub(a, b) == Rat(a[1] * b[2] - b[1] * a[2], a[2] * b[2])

RMul(a, b) == Rat(a[1] * b[1], a[2] * b[2])

RDiv(a, b) == Rat(a[1] * b[2], a[2] * b[1])

RNeg(a) == <<-a[1], a[2]>>

RLess(a, b) == a[1] * b[2] < b[1] * a[2]

RMin(a, b) == IF RLess(b, a) THEN b ELSE a

RZero(a) == a[1] = 0

(***************************************************************************)
(* Tokens of a line: line.split().  A token is an integer literal, a float *)
(* literal or another word; int() accepts the first, float() the first two.*)
(***************************************************************************)
Num(i) == [kind |-> "int", v |-> i, s |-> ""]

Flt(i) == [kind |-> "float", v |-> i, s |-> ""]

Wrd(w) == [kind |-> "word", v |-> 0, s |-> w]

CanInt(t) == t.kind = "int"

CanFloat(t) == t.kind \in {"int", "float"}

\* parts[k] of the source is parts[k + 1] here.
Part(parts, k) == parts[k + 1]

int(parts, k) == Part(parts, k).v

float(parts, k) == R(Part(parts, k).v)

str(parts, k) == Part(parts, k).s

line_type(parts) == Part(parts, 0).s

MinTokensH == 24

MinTokensL == 13

MinTokensR == 16

IntFieldsH == {10, 12}

FloatFieldsH == 18 .. 23

IntFieldsL == {1, 2}

FloatFieldsL == 4 .. 12

IntFieldsR == {1, 2}

FloatFieldsR == 6 .. 15

\* Mutant: only the int() conversions are checked.
RaisesValueError_IntsOnly(parts, ints, floats) ==
    \E k \in ints : ~CanInt(Part(parts, k))

\* The conversions of a record's dict display raise ValueError.
RaisesValueError(parts, ints, floats) ==
    \/ \E k \in ints : ~CanInt(Part(parts, k))
    \/ \E k \in floats : ~CanFloat(Part(parts, k))

header_record(parts) ==
    [name |-> str(parts, 1),
     num_regions |-> int(parts, 10),
     num_levels |-> int(parts, 12),
     bbox_min |-> <<float(parts, 18), float(parts, 19), float(parts, 20)>>,
     bbox_max |-> <<float(parts, 21), float(parts, 22), float(parts, 23)>>]

level_data(parts) ==
    [level_index |-> int(parts, 1),
     num_regions |-> int(parts, 2),
     label |-> str(parts, 3),
     center |-> <<float(parts, 4), float(parts, 5), float(parts, 6)>>,
     bbox_min |-> <<float(parts, 7), float(parts, 8), float(parts, 9)>>,
     bbox_max |-> <<float(parts, 10), float(parts, 11), float(parts, 12)>>]

region_data(parts) ==
    [region_index |-> int(parts, 1),
     level_index |-> int(parts, 2),
     label |-> str(parts, 5),
     center |-> <<float(parts, 6), float(parts, 7), float(parts, 8)>>,
     bbox_min |-> <<float(parts, 9), float(parts, 10), float(parts, 11)>>,
     bbox_max |-> <<float(parts, 12), float(parts, 13), float(parts, 14)>>,
     height |-> float(parts, 15)]

\* What the body of the try block does with one non-blank line:
\* "header", "level", "region" (a record is stored), "warn" (the except
\* clause prints a warning) or "skip" (nothing happens).
LineOutcome(parts) ==
    IF line_type(parts) = "H"
    THEN IF Len(parts) >= MinTokensH
         THEN IF RaisesValueError(parts, IntFieldsH, FloatFieldsH)
              THEN "warn" ELSE "header"
         ELSE "skip"
    ELSE IF line_type(parts) = "L"
    THEN IF Len(parts) >= MinTokensL
         THEN IF RaisesValueError(parts, IntFieldsL, FloatFieldsL)
              THEN "warn" ELSE "level"
         ELSE "skip"
    ELSE IF line_type(parts) = "R"
    THEN IF Len(parts) >= MinTokensR
         THEN IF RaisesValueError(parts, IntFieldsR, FloatFieldsR)
              THEN "warn" ELSE "region"
         ELSE "skip"
    ELSE "skip"

(***************************************************************************)
(* The lines a .house file is made of in this model.                       *)
(***************************************************************************)
Fill(n, t) == [i \in 1 .. n |-> t]

Vec(a, b, c) == <<Flt(a), Flt(b), Flt(c)>>

HLine(name, bmin, bmax) ==
    <<Wrd("H"), Wrd(name)>> \o Fill(8, Num(0)) \o <<Num(3), Num(0), Num(2)>>
        \o Fill(5, Flt(0)) \o bmin \o bmax

LLine(idx, label) ==
    <<Wrd("L"), Num(idx), Num(1), Wrd(label)>>
        \o Vec(0, 0, 0) \o Vec(-5, -5, -1) \o Vec(5, 5, 3)

RLine(idx, lvl, label, center, bmin, bmax, height) ==
    <<Wrd("R"), Num(idx), Num(lvl), Wrd("-"), Wrd("-"), Wrd(label)>>
        \o center \o bmin \o bmax \o <<Flt(height)>>

Blank == <<>>

HNormal == HLine("house", Vec(-5, -5, -1), Vec(5, 5, 3))

HFlat == HLine("house", Vec(0, 0, 0), Vec(4, 0, 2))

LGround == LLine(0, "ground")

RStairs == RLine(0, 0, "s", Vec(0, 0, 0), Vec(-5, -5, -1), Vec(5, 5, 4), 5)

RKitchen == RLine(1, 1, "k", Vec(2, 3, 1), Vec(0, 0, 0), Vec(4, 4, 3), 3)

RPorch == RLine(2, 0, "p", Vec(-2, 4, 2), Vec(-5, 0, -1), Vec(0, 5, 4), 1)

RJunk == RLine(3, 0, "Z", Vec(1, 1, 1), Vec(0, 0, 0), Vec(2, 2, 2), 2)

RUnknown == RLine(4, 1, "q", Vec(4, -4, 1), Vec(3, -5, 0), Vec(5, -3, 4), 4)

\* A portal line: a tag the parser does not know.
PortalLine == <<Wrd("P"), Num(0), Num(0)>>

GoodLines == {HNormal, HFlat, LGround, RStairs, RKitchen, RPorch, RJunk, RUnknown}

ShortLines ==
    {SubSeq(HNormal, 1, MinTokensH - 1), SubSeq(LGround, 1, MinTokensL - 1),
     SubSeq(RKitchen, 1, MinTokensR - 1)}

\* int("3.0"), float("abc") and int("x") raise ValueError.
BadLines ==
    {[HNormal EXCEPT ![11] = Flt(3)], [LGround EXCEPT ![5] = Wrd("abc")],
     [RKitchen EXCEPT ![3] = Wrd("x")]}

Lines == {Blank, PortalLine} \cup GoodLines \cup ShortLines \cup BadLines

(***************************************************************************)
(* __init__: the two tables.                                               *)
(***************************************************************************)
room_type_mapping ==
    [label \in {"a", "b", "c", "d", "e", "f", "g", "h", "i", "j", "k", "l", "m",
                "n", "o", "p", "r", "s", "t", "u", "v", "w", "x", "y", "z",
                "B", "C", "D", "S", "Z", "-"} |->
        CASE label = "a" -> "bathroom"
          [] label = "b" -> "bedroom"
          [] label = "c" -> "closet"
          [] label = "d" -> "dining_room"
          [] label = "e" -> "entryway"
          [] label = "f" -> "family_room"
          [] label = "g" -> "garage"
          [] label = "h" -> "hallway"
          [] label = "i" -> "library"
          [] label = "j" -> "laundry_room"
          [] label = "k" -> "kitchen"
          [] label = "l" -> "living_room"
          [] label = "m" -> "meeting_room"
          [] label = "n" -> "lounge"
          [] label = "o" -> "office"
          [] label = "p" -> "porch"
          [] label = "r" -> "recreation"
          [] label = "s" -> "stairs"
          [] label = "t" -> "toilet"
          [] label = "u" -> "utility_room"
          [] label = "v" -> "tv_room"
          [] label = "w" -> "workout"
          [] label = "x" -> "outdoor"
          [] label = "y" -> "balcony"
          [] label = "z" -> "other"
          [] label = "B" -> "bar"
          [] label = "C" -> "classroom"
          [] label = "D" -> "dining_booth"
          [] label = "S" -> "spa"
          [] label = "Z" -> "junk"
          [] label = "-" -> "unlabeled"]

room_intensities ==
    [room_type \in {"kitchen", "bathroom", "office", "dining_room", "living_room",
                    "family_room", "bedroom", "hallway", "stairs", "closet",
                    "garage", "laundry_room", "utility_room", "library",
                    "meeting_room", "lounge", "recreation", "bar", "spa",
                    "entryway", "other", "unlabeled"} |->
        CASE room_type \in {"kitchen", "office", "dining_room"} -> 15000
          [] room_type \in {"living_room", "family_room", "recreation"} -> 12000
          [] room_type \in {"bathroom", "garage", "laundry_room", "utility_room",
                            "library", "meeting_room", "lounge", "entryway",
                            "other"} -> 10000
          [] room_type \in {"bedroom", "stairs", "bar", "unlabeled"} -> 8000
          [] room_type \in {"hallway", "closet", "spa"} -> 6000]

DefaultRoomType == "other"

DefaultIntensity == 1000

\* dict.get(key, default)
Get(table, key, default) == IF key \in DOMAIN table THEN table[key] ELSE default

(***************************************************************************)
(* calculate_light_position                                                *)
(***************************************************************************)
StairsFactor == <<2, 5>>

LowCeilingFactor == <<4, 5>>

HighCeilingFactor == <<3, 5>>

ClosetMaxHeight == <<11, 5>>

NormalMaxHeight == <<27, 10>>

HighCeiling == <<4, 1>>

\* Mutant: closets and toilets are lit at the fixed height, whatever the ceiling.
light_height_NoCap(label, floor_z, room_height) ==
    IF label = "s"
    THEN RAdd(floor_z, RMul(room_height, StairsFactor))
    ELSE IF label \in {"c", "t"}
    THEN RAdd(floor_z, ClosetMaxHeight)
    ELSE IF RLess(HighCeiling, room_height)
    THEN RAdd(floor_z, RMul(room_height, HighCeilingFactor))
    ELSE RAdd(floor_z, RMin(NormalMaxHeight, RMul(room_height, LowCeilingFactor)))

\* Mutant: the high-ceiling rule is tried before the closet/toilet rule.
light_height_HighFirst(label, floor_z, room_height) ==
    IF label = "s"
    THEN RAdd(floor_z, RMul(room_height, StairsFactor))
    ELSE IF RLess(HighCeiling, room_height)
    THEN RAdd(floor_z, RMul(room_height, HighCeilingFactor))
    ELSE IF label \in {"c", "t"}
    THEN RAdd(floor_z, RMin(ClosetMaxHeight, RMul(room_height, LowCeilingFactor)))
    ELSE RAdd(floor_z, RMin(NormalMaxHeight, RMul(room_height, LowCeilingFactor)))

light_height(label, floor_z, room_height) ==
    IF label = "s"
    THEN RAdd(floor_z, RMul(room_height, StairsFactor))
    ELSE IF label \in {"c", "t"}
    THEN RAdd(floor_z, RMin(ClosetMaxHeight, RMul(room_height, LowCeilingFactor)))
    ELSE IF RLess(HighCeiling, room_height)
    THEN RAdd(floor_z, RMul(room_height, HighCeilingFactor))
    ELSE RAdd(floor_z, RMin(NormalMaxHeight, RMul(room_height, LowCeilingFactor)))

calculate_light_position(region) ==
    LET floor_z == region.bbox_min[3]
        ceiling_z == region.bbox_max[3]
        room_height == RSub(ceiling_z, floor_z)
    IN  <<region.center[1], region.center[2],
          light_height(region.label, floor_z, room_height)>>

(***************************************************************************)
(* extract_light_positions: the body of the loop over the regions.         *)
(***************************************************************************)
\* Mutant: junk regions are not skipped.
IsJunk_Never(region) == FALSE

IsJunk(region) == region.label = "Z"

HasLevel(lvls, level_idx) == \E g \in 1 .. Len(lvls) : lvls[g].level_idx = level_idx

GroupOf(lvls, level_idx) == CHOOSE g \in 1 .. Len(lvls) : lvls[g].level_idx = level_idx

SynthName(level_idx) == "Level_" \o ToString(level_idx)

\* lines 255-259
InitLevel(lvls, level_idx) ==
    IF HasLevel(lvls, level_idx)
    THEN lvls
    ELSE Append(lvls, [level_idx |-> level_idx,
                       level_name |-> SynthName(level_idx),
                       lights |-> <<>>])

\* Mutant: the loop over the levels has no break, the last match wins.
FindLevelName_Last(doc_levels, level_idx, current) ==
    IF \E k \in 1 .. Len(doc_levels) : doc_levels[k].level_index = level_idx
    THEN LET last == CHOOSE k \in 1 .. Len(doc_levels) :
                        /\ doc_levels[k].level_index = level_idx
                        /\ \A j \in k + 1 .. Len(doc_levels) :
                              doc_levels[j].level_index # level_idx
         IN  doc_levels[last].label
    ELSE current

\* lines 262-265: the label of the first level with this index, if any
FindLevelName(doc_levels, level_idx, current) ==
    IF \E k \in 1 .. Len(doc_levels) : doc_levels[k].level_index = level_idx
    THEN LET first == CHOOSE k \in 1 .. Len(doc_levels) :
                        /\ doc_levels[k].level_index = level_idx
                        /\ \A j \in 1 .. k - 1 : doc_levels[j].level_index # level_idx
         IN  doc_levels[first].label
    ELSE current

\* Mutant: the intensity is looked up by the label, not by the room type.
light_info_of_ByLabel(region) ==
    LET room_type == Get(room_type_mapping, region.label, DefaultRoomType)
    IN  [region_index |-> region.region_index,
         room_label |-> region.label,
         room_type |-> room_type,
         position |-> calculate_light_position(region),
         intensity |-> Get(room_intensities, region.label, DefaultIntensity),
         room_center |-> region.center,
         room_height |-> region.height,
         floor_z |-> region.bbox_min[3],
         ceiling_z |-> region.bbox_max[3],
         original_position |-> <<>>]

light_info_of(region) ==
    LET room_type == Get(room_type_mapping, region.label, DefaultRoomType)
    IN  [region_index |-> region.region_index,
         room_label |-> region.label,
         room_type |-> room_type,
         position |-> calculate_light_position(region),
         intensity |-> Get(room_intensities, room_type, DefaultIntensity),
         room_center |-> region.center,
         room_height |-> region.height,
         floor_z |-> region.bbox_min[3],
         ceiling_z |-> region.bbox_max[3],
         original_position |-> <<>>]

\* lines 284: append the light to its group
AddToGroup(lvls, level_idx, name, id) ==
    LET g == GroupOf(lvls, level_idx)
    IN  [lvls EXCEPT ![g] = [level_idx |-> level_idx,
                             level_name |-> name,
                             lights |-> Append(lvls[g].lights, id)]]

\* line 285: append the light to the flat list
AddToFlat(all_positions, id) == Append(all_positions, id)

(***************************************************************************)
(* apply_matterport_rotation and scale_light_positions                     *)
(***************************************************************************)
RECURSIVE Rebuild(_)
\* lines 495-497 and 453-455: all_positions rebuilt from the groups
Rebuild(lvls) ==
    IF lvls = <<>> THEN <<>> ELSE Head(lvls).lights \o Rebuild(Tail(lvls))

rotate_position(p) == <<p[1], p[3], RNeg(p[2])>>

rotate_light(light_info) ==
    [light_info EXCEPT !.position = rotate_position(light_info.position),
                       !.original_position = light_info.position]

RECURSIVE RotateAll(_, _)
\* lines 482-492: the light_info dicts are updated in place, in loop order
RotateAll(heap, ids) ==
    IF ids = <<>>
    THEN heap
    ELSE RotateAll([heap EXCEPT ![Head(ids)] = rotate_light(heap[Head(ids)])],
                   Tail(ids))

Two == <<2, 1>>

Center(bmin, bmax) ==
    <<RDiv(RAdd(bmax[1], bmin[1]), Two),
      RDiv(RAdd(bmax[2], bmin[2]), Two),
      RDiv(RAdd(bmax[3], bmin[3]), Two)>>

\* Mutant: the centre of the house box is not rotated.
rotated_house_center_Unrotated(house_header) ==
    Center(house_header.bbox_min, house_header.bbox_max)

rotated_house_center(house_header) ==
    LET house_center == Center(house_header.bbox_min, house_header.bbox_max)
    IN  <<house_center[1], house_center[3], RNeg(house_center[2])>>

\* Mutant: the sizes of the house box are not permuted.
rotated_house_size_Unpermuted(house_header) ==
    LET house_min == house_header.bbox_min
        house_max == house_header.bbox_max
    IN  <<RSub(house_max[1], house_min[1]),
          RSub(house_max[2], house_min[2]),
          RSub(house_max[3], house_min[3])>>

rotated_house_size(house_header) ==
    LET house_min == house_header.bbox_min
        house_max == house_header.bbox_max
    IN  <<RSub(house_max[1], house_min[1]),
          RSub(house_max[3], house_min[3]),
          RSub(house_max[2], house_min[2])>>

\* Mutant: the positions are translated to the min corner of the mesh box.
isaac_center_MinCorner(mesh) == mesh.bbox_min

isaac_center(mesh) == Center(mesh.bbox_min, mesh.bbox_max)

isaac_size(mesh) ==
    <<RSub(mesh.bbox_max[1], mesh.bbox_min[1]),
      RSub(mesh.bbox_max[2], mesh.bbox_min[2]),
      RSub(mesh.bbox_max[3], mesh.bbox_min[3])>>

\* line 426 raises ZeroDivisionError
DividesByZero(house_header) ==
    \E i \in 1 .. 3 : RZero(rotated_house_size(house_header)[i])

scale_factors(mesh, house_header) ==
    [i \in 1 .. 3 |-> RDiv(isaac_size(mesh)[i], rotated_house_size(house_header)[i])]

scale_position(p, mesh, house_header) ==
    [i \in 1 .. 3 |->
        RAdd(RMul(RSub(p[i], rotated_house_center(house_header)[i]),
                  scale_factors(mesh, house_header)[i]),
             isaac_center(mesh)[i])]

\* Mutant: the scale stage rotates the position once more.
scale_light_RotatingAgain(light_info, mesh, house_header) ==
    [light_info EXCEPT !.position =
        scale_position(rotate_position(light_info.position), mesh, house_header)]

scale_light(light_info, mesh, house_header) ==
    [light_info EXCEPT !.position = scale_position(light_info.position, mesh, house_header)]

RECURSIVE ScaleAll(_, _, _, _)
\* lines 430-450
ScaleAll(heap, ids, mesh, house_header) ==
    IF ids = <<>>
    THEN heap
    ELSE ScaleAll([heap EXCEPT ![Head(ids)] = scale_light(heap[Head(ids)], mesh, house_header)],
                  Tail(ids), mesh, house_header)

\* light_positions.copy() with the key 'all_positions' rebound to a new list
CopyRebuilt(plan, lvls) == [plan EXCEPT !.all_positions = Rebuild(lvls)]

(***************************************************************************)
(* get_house_mesh_transform: the bounding box of the loaded mesh.          *)
(***************************************************************************)
BBox(a, b, c, d, e, f) ==
    [bbox_min |-> <<R(a), R(b), R(c)>>, bbox_max |-> <<R(d), R(e), R(f)>>]

\* lines 373-376: the box used when the bounding box cannot be computed
FallbackBox == BBox(-10, -10, -1, 10, 10, 5)

MeshBoxes == {FallbackBox, BBox(0, 0, 0, 10, 10, 4), BBox(2, -3, 1, 2, 5, 7)}

(***************************************************************************)
(* The state machine: process_house from the parse of the .house file on.  *)
(***************************************************************************)
EmptyHouse == [house_name |-> "house", header |-> <<>>, levels |-> <<>>, regions |-> <<>>]

\* The host once the stage is loaded and the .house file found.
HostLoaded ==
    /\ files = [usd_file |-> TRUE, house_file |-> TRUE]
    /\ stage_loaded = TRUE
    /\ room_lights = <<>>
    /\ ambient_lights = <<>>
    /\ result = "none"
    /\ file = <<>>
    /\ first_doc = <<>>

Init ==
    /\ pc = "parse"
    /\ line = <<>>
    /\ line_num = 0
    /\ house_data = EmptyHouse
    /\ warnings = <<>>
    /\ region_i = 0
    /\ lights = <<>>
    /\ levels = <<>>
    /\ light_positions = <<>>
    /\ mesh_transform = <<>>
    /\ scaled_light_positions = <<>>
    /\ err = "none"
    /\ HostLoaded

\* The body of the loop over the lines of the file, for one line.
ReadLine(parts) ==
    /\ line' = parts
    /\ line_num' = line_num + 1
    /\ IF Len(parts) = 0
       THEN UNCHANGED <<house_data, warnings>>
       ELSE LET outcome == LineOutcome(parts)
            IN  /\ house_data' =
                    CASE outcome = "header" ->
                            [house_data EXCEPT !.header = <<header_record(parts)>>]
                      [] outcome = "level" ->
                            [house_data EXCEPT !.levels = Append(@, level_data(parts))]
                      [] outcome = "region" ->
                            [house_data EXCEPT !.regions = Append(@, region_data(parts))]
                      [] OTHER -> house_data
                /\ warnings' = IF outcome = "warn"
                               THEN Append(warnings, line_num + 1)
                               ELSE warnings

\* One iteration of the loop over the lines of the file.
ParseLine ==
    /\ pc = "parse"
    /\ line_num < MaxLines
    /\ \E parts \in Lines : ReadLine(parts)
    /\ UNCHANGED <<pc, region_i, lights, levels, light_positions, mesh_transform,
                   scaled_light_positions, err>>
    /\ UNCHANGED host

\* End of file: parse_house_file returns house_data.
ParseReturn ==
    /\ pc = "parse"
    /\ pc' = "extract_begin"
    /\ line' = <<>>
    /\ line_num' = 0
    /\ UNCHANGED <<house_data, warnings, region_i, lights, levels, light_positions,
                   mesh_transform, scaled_light_positions, err>>
    /\ UNCHANGED host

\* extract_light_positions is entered: the empty plan.
ExtractBegin ==
    /\ pc = "extract_begin"
    /\ pc' = "extract"
    /\ light_positions' = <<[house_name |-> house_data.house_name,
                             total_lights |-> 0,
                             all_positions |-> <<>>]>>
    /\ levels' = <<>>
    /\ region_i' = 1
    /\ UNCHANGED <<line, line_num, house_data, warnings, lights, mesh_transform,
                   scaled_light_positions, err>>
    /\ UNCHANGED host

\* One iteration of the loop over house_data['regions'].
ExtractRegion ==
    /\ pc = "extract"
    /\ region_i <= Len(house_data.regions)
    /\ region_i' = region_i + 1
    /\ LET region == house_data.regions[region_i]
           level_idx == region.level_index
           plan == light_positions[1]
           id == Len(lights) + 1
           lvls == InitLevel(levels, level_idx)
           name == FindLevelName(house_data.levels, level_idx,
                                 lvls[GroupOf(lvls, level_idx)].level_name)
       IN  IF IsJunk(region)
           THEN UNCHANGED <<lights, levels, light_positions>>
           ELSE /\ lights' = Append(lights, light_info_of(region))
                /\ levels' = AddToGroup(lvls, level_idx, name, id)
                /\ light_positions' =
                     <<[plan EXCEPT !.all_positions = AddToFlat(plan.all_positions, id),
                                    !.total_lights = plan.total_lights + 1]>>
    /\ UNCHANGED <<pc, line, line_num, house_data, warnings, mesh_transform,
                   scaled_light_positions, err>>
    /\ UNCHANGED host

\* extract_light_positions returns the plan.
ExtractReturn ==
    /\ pc = "extract"
    /\ region_i > Len(house_data.regions)
    /\ pc' = "query"
    /\ region_i' = 0
    /\ UNCHANGED <<line, line_num, house_data, warnings, lights, levels,
                   light_positions, mesh_transform, scaled_light_positions, err>>
    /\ UNCHANGED host

\* get_house_mesh_transform: no candidate prim gives None, a single one makes
\* mesh_candidates[1] raise IndexError, otherwise the box of the second prim.
GetHouseMeshTransform ==
    /\ pc = "query"
    /\ \E mesh_candidates \in 0 .. 2 :
        IF mesh_candidates = 0
        THEN /\ mesh_transform' = <<>>
             /\ pc' = "rotate"
             /\ err' = err
        ELSE IF mesh_candidates = 1
        THEN /\ mesh_transform' = mesh_transform
             /\ pc' = "raised"
             /\ err' = "IndexError"
        ELSE /\ \E box \in MeshBoxes : mesh_transform' = <<box>>
             /\ pc' = "rotate"
             /\ err' = err
    /\ UNCHANGED <<line, line_num, house_data, warnings, region_i, lights, levels,
                   light_positions, scaled_light_positions>>
    /\ UNCHANGED host

\* light_positions = self.apply_matterport_rotation(light_positions)
ApplyMatterportRotation ==
    /\ pc = "rotate"
    /\ pc' = "scale"
    /\ lights' = RotateAll(lights, Rebuild(levels))
    /\ light_positions' = <<CopyRebuilt(light_positions[1], levels)>>
    /\ UNCHANGED <<line, line_num, house_data, warnings, region_i, levels,
                   mesh_transform, scaled_light_positions, err>>
    /\ UNCHANGED host

\* scaled_light_positions = self.scale_light_positions(light_positions,
\*                              mesh_transform, house_data['header'])
ScaleLightPositions ==
    /\ pc = "scale"
    /\ IF house_data.header = <<>> \/ mesh_transform = <<>>
       THEN /\ pc' = "raised"
            /\ err' = "TypeError"
            /\ UNCHANGED <<lights, scaled_light_positions>>
       ELSE IF DividesByZero(house_data.header[1])
       THEN /\ pc' = "raised"
            /\ err' = "ZeroDivisionError"
            /\ UNCHANGED <<lights, scaled_light_positions>>
       ELSE /\ pc' = "create"
            /\ err' = err
            /\ lights' = ScaleAll(lights, Rebuild(levels), mesh_transform[1],
                                  house_data.header[1])
            /\ scaled_light_positions' = <<CopyRebuilt(light_positions[1], levels)>>
    /\ UNCHANGED <<line, line_num, house_data, warnings, region_i, levels,
                   light_positions, mesh_transform>>
    /\ UNCHANGED host

Next ==
    \/ ParseLine
    \/ ParseReturn
    \/ ExtractBegin
    \/ ExtractRegion
    \/ ExtractReturn
    \/ GetHouseMeshTransform
    \/ ApplyMatterportRotation
    \/ ScaleLightPositions

Spec == Init /\ [][Next]_vars

(***************************************************************************)
(* Placement alone: extract_light_positions applied to the document of a   *)
(* file with a single region line, over a wide choice of regions.          *)
(***************************************************************************)
MaxHeight == 10

PlaceLabels == {"s", "c", "t", "k", "b", "p", "q", "Z", "-"}

PlaceRegions ==
    {region_data(RLine(7, lvl, label, Vec(cx, 3, 0), Vec(0, 0, fz), Vec(1, 1, fz + h), ht)) :
        lvl \in {0}, label \in PlaceLabels, cx \in {-2, 4}, fz \in {-1, 0, 2},
        h \in -1 .. MaxHeight, ht \in {0, 3}}

InitPlace ==
    /\ pc = "extract_begin"
    /\ line = <<>>
    /\ line_num = 0
    /\ \E region \in PlaceRegions :
          house_data = [EmptyHouse EXCEPT !.regions = <<region>>]
    /\ warnings = <<>>
    /\ region_i = 0
    /\ lights = <<>>
    /\ levels = <<>>
    /\ light_positions = <<>>
    /\ mesh_transform = <<>>
    /\ scaled_light_positions = <<>>
    /\ err = "none"
    /\ HostLoaded

NextPlace ==
    \/ ExtractBegin
    \/ ExtractRegion
    \/ ExtractReturn

SpecPlace == InitPlace /\ [][NextPlace]_vars

(***************************************************************************)
(* Alignment alone: the pipeline downstream of the parser, applied to      *)
(* documents with a wide choice of header boxes.                           *)
(***************************************************************************)
MaxExtent == 3

HeaderOf(bmin, size) ==
    [name |-> "house", num_regions |-> 1, num_levels |-> 1,
     bbox_min |-> <<R(bmin[1]), R(bmin[2]), R(bmin[3])>>,
     bbox_max |-> <<R(bmin[1] + size[1]), R(bmin[2] + size[2]), R(bmin[3] + size[3])>>]

AlignHeaders ==
    {HeaderOf(bmin, size) :
        bmin \in {<<-5, -5, -1>>, <<0, 0, 0>>, <<1, -2, 3>>},
        size \in (-1 .. MaxExtent) \X (-1 .. MaxExtent) \X (-1 .. MaxExtent)}
    \cup {header_record(HNormal)}

\* The stairs region whose light is placed at the centre of the header box.
CenterRegion(header) ==
    LET c == Center(header.bbox_min, header.bbox_max)
    IN  [region_index |-> 0, level_index |-> 0, label |-> "s",
         center |-> c,
         bbox_min |-> <<c[1], c[2], RSub(c[3], R(2))>>,
         bbox_max |-> <<c[1], c[2], RAdd(c[3], R(3))>>,
         height |-> R(5)]

AlignRegions(header) ==
    {<<CenterRegion(header)>>, <<region_data(RKitchen)>>,
     <<region_data(RPorch), CenterRegion(header)>>}

InitAlign ==
    /\ pc = "extract_begin"
    /\ line = <<>>
    /\ line_num = 0
    /\ \E header \in AlignHeaders : \E regions \in AlignRegions(header) :
          house_data = [EmptyHouse EXCEPT !.header = <<header>>, !.regions = regions]
    /\ warnings = <<>>
    /\ region_i = 0
    /\ lights = <<>>
    /\ levels = <<>>
    /\ light_positions = <<>>
    /\ mesh_transform = <<>>
    /\ scaled_light_positions = <<>>
    /\ err = "none"
    /\ HostLoaded

NextAlign ==
    \/ ExtractBegin
    \/ ExtractRegion
    \/ ExtractReturn
    \/ GetHouseMeshTransform
    \/ ApplyMatterportRotation
    \/ ScaleLightPositions

SpecAlign == InitAlign /\ [][NextAlign]_vars

(***************************************************************************)
(* Vocabulary of the properties.                                           *)
(***************************************************************************)
NotJunkLabel(region) == region.label # "Z"

\* The parsed regions that are not labelled 'Z', in document order; the
\* k-th of them is the region of the k-th light_info created.
NonJunkRegions == SelectSeq(house_data.regions, NotJunkLabel)

JunkCount == Len(house_data.regions) - Len(NonJunkRegions)

Extracted == pc \in {"query", "rotate", "scale", "create", "raised"}

RECURSIVE FirstEncountered(_, _)
\* The level indexes of a sequence of regions, in first-encountered order.
FirstEncountered(regions, seen) ==
    IF regions = <<>>
    THEN <<>>
    ELSE IF Head(regions).level_index \in seen
         THEN FirstEncountered(Tail(regions), seen)
         ELSE <<Head(regions).level_index>>
                \o FirstEncountered(Tail(regions), seen \cup {Head(regions).level_index})

RECURSIVE LightsOfLevel(_, _, _)
\* The numbers k >= from, ascending, of the regions on one level.
LightsOfLevel(regions, level_idx, from) ==
    IF from > Len(regions)
    THEN <<>>
    ELSE (IF regions[from].level_index = level_idx THEN <<from>> ELSE <<>>)
            \o LightsOfLevel(regions, level_idx, from + 1)

RECURSIVE ConcatByLevel(_, _)
ConcatByLevel(regions, order) ==
    IF order = <<>>
    THEN <<>>
    ELSE LightsOfLevel(regions, Head(order), 1) \o ConcatByLevel(regions, Tail(order))

ExpectedFlat == ConcatByLevel(NonJunkRegions, FirstEncountered(NonJunkRegions, {}))

RECURSIVE GroupSizes(_)
GroupSizes(lvls) ==
    IF lvls = <<>> THEN 0 ELSE Len(Head(lvls).lights) + GroupSizes(Tail(lvls))

(***************************************************************************)
(* C1: in every plan returned by extract_light_positions,                  *)
(* apply_matterport_rotation or scale_light_positions, all_positions is    *)
(* the concatenation of the lights of the level groups, the levels taken   *)
(* in first-encountered order.  The plan of extract_light_positions lists  *)
(* the lights in region order instead, which differs once the regions of   *)
(* two levels interleave.                                                  *)
(***************************************************************************)
C1_FlatIsConcatenation ==
    /\ Extracted => light_positions[1].all_positions = ExpectedFlat
    /\ scaled_light_positions # <<>> =>
          scaled_light_positions[1].all_positions = ExpectedFlat

(***************************************************************************)
(* C2: a returned plan holds one light per region that is not labelled 'Z' *)
(* and none for a region labelled 'Z': total_lights = len(all_positions) = *)
(* regions - junk regions = the sum of the group sizes.                    *)
(***************************************************************************)
PlanCounts(plan) ==
    /\ plan.total_lights = Len(plan.all_positions)
    /\ plan.total_lights = Len(house_data.regions) - JunkCount
    /\ plan.total_lights = GroupSizes(levels)

C2_OneLightPerNonJunkRegion ==
    /\ Extracted =>
          /\ PlanCounts(light_positions[1])
          /\ Len(lights) = Len(NonJunkRegions)
          /\ \A k \in 1 .. Len(lights) :
                /\ lights[k].region_index = NonJunkRegions[k].region_index
                /\ lights[k].room_label # "Z"
    /\ scaled_light_positions # <<>> => PlanCounts(scaled_light_positions[1])

C2_Witness ==
    /\ pc = "query"
    /\ JunkCount >= 1
    /\ light_positions[1].total_lights >= 2

(***************************************************************************)
(* C3: the light keeps the region's centre x and y, and its z follows the  *)
(* first rule that matches, with h = bbox_max.z - bbox_min.z: stairs       *)
(* floor + 0.4 h; closet or toilet floor + min(2.2, 0.8 h); h > 4.0        *)
(* floor + 0.6 h; otherwise floor + min(2.7, 0.8 h).  The 'height' field   *)
(* of the region plays no part.                                            *)
(***************************************************************************)
RuleZ(label, floorZ, h) ==
    CASE label = "s" -> RAdd(floorZ, RMul(<<2, 5>>, h))
      [] label \in {"c", "t"} -> RAdd(floorZ, RMin(<<11, 5>>, RMul(<<4, 5>>, h)))
      [] label \notin {"s", "c", "t"} /\ RLess(<<4, 1>>, h) ->
            RAdd(floorZ, RMul(<<3, 5>>, h))
      [] OTHER -> RAdd(floorZ, RMin(<<27, 10>>, RMul(<<4, 5>>, h)))

Placement(region) ==
    <<region.center[1], region.center[2],
      RuleZ(region.label, region.bbox_min[3],
            RSub(region.bbox_max[3], region.bbox_min[3]))>>

C3_LightHeightRule ==
    pc \in {"extract", "query"} =>
        \A k \in 1 .. Len(lights) : lights[k].position = Placement(NonJunkRegions[k])

\* a closet under a 10 m ceiling, lit at 2.2 above the floor, whose advisory
\* height differs from the height of its box
C3_Witness ==
    /\ pc = "query"
    /\ \E k \in 1 .. Len(lights) :
          /\ lights[k].room_label = "c"
          /\ RSub(lights[k].ceiling_z, lights[k].floor_z) = <<10, 1>>
          /\ lights[k].position[3] = RAdd(lights[k].floor_z, <<11, 5>>)
          /\ lights[k].room_height # <<10, 1>>

(***************************************************************************)
(* C4: room_type is the entry of the label in the label table, 'other' for *)
(* a label outside it; intensity is the entry of the room type in the      *)
(* intensity table, 1000 for a room type outside it.                       *)
(***************************************************************************)
C4_TypeAndIntensity ==
    \A k \in 1 .. Len(lights) :
        LET label == lights[k].room_label
            type == lights[k].room_type
        IN  /\ label \in DOMAIN room_type_mapping => type = room_type_mapping[label]
            /\ label \notin DOMAIN room_type_mapping => type = "other"
            /\ type \in DOMAIN room_intensities =>
                  lights[k].intensity = room_intensities[type]
            /\ type \notin DOMAIN room_intensities => lights[k].intensity = 1000
            /\ label = "k" => type = "kitchen" /\ lights[k].intensity = 15000
            /\ label = "q" => lights[k].intensity = 10000
            /\ label = "p" => type = "porch"

\* a porch (a room type without an intensity) and an unknown label
C4_Witness ==
    /\ pc = "query"
    /\ \E k \in 1 .. Len(lights) :
          \/ lights[k].room_label = "p" /\ lights[k].intensity = 1000
          \/ lights[k].room_label = "q" /\ lights[k].room_type = "other"

(***************************************************************************)
(* C5: a malformed H, L or R line (too few tokens, or a token that the     *)
(* conversion of its field rejects), a line with another tag and a blank   *)
(* line leave house_data as it was; a well-formed line stores its whole    *)
(* record, whatever was read before it.  A line is well formed when it has *)
(* the tokens its tag requires, an integer literal in every integer field  *)
(* and a number in every other numeric field.                              *)
(***************************************************************************)
Tag(parts) == IF parts = <<>> THEN "" ELSE parts[1].s

Required(tag) == CASE tag = "H" -> 24 [] tag = "L" -> 13 [] tag = "R" -> 16

\* zero-based positions of the integer and of the float fields
IntegerFields(tag) == CASE tag = "H" -> {10, 12} [] OTHER -> {1, 2}

FloatFields(tag) ==
    CASE tag = "H" -> 18 .. 23 [] tag = "L" -> 4 .. 12 [] tag = "R" -> 6 .. 15

TooShort(parts) == Tag(parts) \in {"H", "L", "R"} /\ Len(parts) < Required(Tag(parts))

BadNumber(parts) ==
    /\ Tag(parts) \in {"H", "L", "R"}
    /\ Len(parts) >= Required(Tag(parts))
    /\ \/ \E k \in IntegerFields(Tag(parts)) : parts[k + 1].kind # "int"
       \/ \E k \in FloatFields(Tag(parts)) : parts[k + 1].kind = "word"

WellFormed(parts) ==
    Tag(parts) \in {"H", "L", "R"} /\ ~TooShort(parts) /\ ~BadNumber(parts)

Point(parts, k) == <<R(parts[k + 1].v), R(parts[k + 2].v), R(parts[k + 3].v)>>

LineRead == line_num' = line_num + 1

C5_MalformedLineStoresNothing ==
    [][LineRead =>
        LET parts == line'
            last == Len(house_data.regions')
            lastL == Len(house_data.levels')
        IN  /\ ~WellFormed(parts) => house_data' = house_data
            /\ WellFormed(parts) /\ Tag(parts) = "H" =>
                  /\ house_data' = [house_data EXCEPT !.header = house_data.header']
                  /\ house_data.header' =
                        <<[name |-> parts[2].s, num_regions |-> parts[11].v,
                           num_levels |-> parts[13].v,
                           bbox_min |-> Point(parts, 18), bbox_max |-> Point(parts, 21)]>>
            /\ WellFormed(parts) /\ Tag(parts) = "L" =>
                  /\ house_data' = [house_data EXCEPT !.levels = house_data.levels']
                  /\ SubSeq(house_data.levels', 1, lastL - 1) = house_data.levels
                  /\ house_data.levels'[lastL] =
                        [level_index |-> parts[2].v, num_regions |-> parts[3].v,
                         label |-> parts[4].s, center |-> Point(parts, 4),
                         bbox_min |-> Point(parts, 7), bbox_max |-> Point(parts, 10)]
            /\ WellFormed(parts) /\ Tag(parts) = "R" =>
                  /\ house_data' = [house_data EXCEPT !.regions = house_data.regions']
                  /\ SubSeq(house_data.regions', 1, last - 1) = house_data.regions
                  /\ house_data.regions'[last] =
                        [region_index |-> parts[2].v, level_index |-> parts[3].v,
                         label |-> parts[6].s, center |-> Point(parts, 6),
                         bbox_min |-> Point(parts, 9), bbox_max |-> Point(parts, 12),
                         height |-> R(parts[16].v)]
    ]_vars

\* a region line has been stored after a line that raised, with the levels
\* and regions read before that line still in place
C5_Witness ==
    /\ pc = "parse"
    /\ warnings = <<2>>
    /\ line_num = 3
    /\ line = RKitchen
    /\ house_data.regions = <<region_data(RStairs), region_data(RKitchen)>>

(***************************************************************************)
(* C6: the parser prints one warning for each H, L or R line it cannot     *)
(* parse, be it too short or with a rejected numeric token, and none for   *)
(* any other line.  A line that is too short is skipped without a warning. *)
(***************************************************************************)
C6_OneWarningPerUnparsableLine ==
    [][LineRead =>
        warnings' = IF TooShort(line') \/ BadNumber(line')
                    THEN Append(warnings, line_num')
                    ELSE warnings
    ]_vars

(***************************************************************************)
(* Alignment: the quantities of the properties C7 to C10.                  *)
(***************************************************************************)
Rotated(p) == <<p[1], p[3], <<-p[2][1], p[2][2]>>>>

Midpoint(a, b) == [i \in 1 .. 3 |-> RDiv(RAdd(a[i], b[i]), <<2, 1>>)]

Difference(a, b) == [i \in 1 .. 3 |-> RSub(a[i], b[i])]

Header == house_data.header[1]

Mesh == mesh_transform[1]

rotatedSourceCenter == Midpoint(Rotated(Header.bbox_min), Rotated(Header.bbox_max))

\* max - min of the rotated corner points
rotatedSourceSize == Difference(Rotated(Header.bbox_max), Rotated(Header.bbox_min))

\* the extents of the header box on the axes x, z, y
permutedSourceSize ==
    <<RSub(Header.bbox_max[1], Header.bbox_min[1]),
      RSub(Header.bbox_max[3], Header.bbox_min[3]),
      RSub(Header.bbox_max[2], Header.bbox_min[2])>>

destCenter == Midpoint(Mesh.bbox_min, Mesh.bbox_max)

destSize == Difference(Mesh.bbox_max, Mesh.bbox_min)

Remap(p, sourceSize) ==
    [i \in 1 .. 3 |->
        RAdd(RMul(RSub(p[i], rotatedSourceCenter[i]), RDiv(destSize[i], sourceSize[i])),
             destCenter[i])]

ZeroExtent == \E i \in 1 .. 3 : Header.bbox_min[i] = Header.bbox_max[i]

ScaleStep == pc = "scale" /\ pc' = "create"

(***************************************************************************)
(* C7: with a header box of zero extent on some axis, scale_light_positions*)
(* ends in an explicit DegenerateBounds failure.  The code divides by the  *)
(* zero size and leaves with the ZeroDivisionError of that division.       *)
(***************************************************************************)
C7_DegenerateBoundsFailure ==
    (/\ pc \in {"create", "raised"}
     /\ house_data.header # <<>>
     /\ mesh_transform # <<>>
     /\ ZeroExtent)
        => pc = "raised" /\ err = "DegenerateBounds"

C9_RemapByRotatedCorners ==
    [][ScaleStep =>
        \A k \in 1 .. Len(lights) :
            lights'[k].position = Remap(lights[k].position, rotatedSourceSize)
    ]_vars

(***************************************************************************)
(* C9 as amended: the same map with the source size taken as the extents   *)
(* of the header box on the axes (x, z, y): its third component is         *)
(* max.y - min.y, the opposite of the difference of the rotated corners.   *)
(***************************************************************************)
C9_RemapByPermutedExtents ==
    [][ScaleStep =>
        \A k \in 1 .. Len(lights) :
            lights'[k].position = Remap(lights[k].position, permutedSourceSize)
    ]_vars

\* a light off the centre of a header box, scaled into a mesh box with depth
C9_Witness ==
    /\ pc = "create"
    /\ ~RZero(destSize[3])
    /\ \E k \in 1 .. Len(lights) :
          /\ Rotated(lights[k].original_position)[3] # rotatedSourceCenter[3]
          /\ lights[k].position[3] # destCenter[3]

(***************************************************************************)
(* C10: a light whose rotated position is the centre of the rotated header *)
(* box is mapped to the centre of the destination box.                     *)
(***************************************************************************)
C10_CenterMapsToCenter ==
    pc = "create" =>
        \A k \in 1 .. Len(lights) :
            Rotated(lights[k].original_position) = rotatedSourceCenter
                => lights[k].position = destCenter

\* the example: source (-5,-5,-1)..(5,5,3), destination (0,0,0)..(10,10,4)
C10_Witness ==
    /\ pc = "create"
    /\ Header.bbox_min = <<<<-5, 1>>, <<-5, 1>>, <<-1, 1>>>>
    /\ Header.bbox_max = <<<<5, 1>>, <<5, 1>>, <<3, 1>>>>
    /\ Mesh = BBox(0, 0, 0, 10, 10, 4)
    /\ \E k \in 1 .. Len(lights) :
          /\ Rotated(lights[k].original_position) = rotatedSourceCenter
          /\ lights[k].position = <<<<5, 1>>, <<5, 1>>, <<2, 1>>>>

(***************************************************************************)
(* C11: apply_matterport_rotation and scale_light_positions leave the plan *)
(* they are given as it was: the positions of its lights and its groups    *)
(* are the same after the call as before.  Both copy the plan with         *)
(* dict.copy(), which shares the groups and the light_info dicts, and then *)
(* assign to light_info['position'] of the shared dicts.                   *)
(***************************************************************************)
\* the positions of the lights a plan lists, read in a given heap
PositionsOf(plan, heap) ==
    [k \in 1 .. Len(plan.all_positions) |-> heap[plan.all_positions[k]].position]

RotationStep == pc = "rotate" /\ pc' = "scale"

C11_InputPlanUntouched ==
    [][RotationStep \/ ScaleStep =>
        /\ PositionsOf(light_positions[1], lights') = PositionsOf(light_positions[1], lights)
        /\ levels' = levels
    ]_vars

(***************************************************************************)
(* C12: a document without header parses and yields a plan; aligning it    *)
(* ends in a failure named after the missing source box, aligning without  *)
(* a destination box in MissingDestinationFrame; neither is a generic      *)
(* exception and neither ends the run of process_house.  In the code both  *)
(* are the TypeError of subscripting None, which leaves process_house.     *)
(***************************************************************************)
BuiltinExceptions == {"TypeError", "IndexError", "ZeroDivisionError"}

ScaleCalled == pc = "create" \/ (pc = "raised" /\ err # "IndexError")

C12_NamedAlignmentFailures ==
    /\ Extracted /\ house_data.header = <<>> =>
          light_positions[1].total_lights = Len(NonJunkRegions)
    /\ ScaleCalled /\ house_data.header = <<>> =>
          /\ err \notin BuiltinExceptions \cup {"none", "MissingDestinationFrame"}
          /\ pc # "raised"
    /\ ScaleCalled /\ house_data.header # <<>> /\ mesh_transform = <<>> =>
          /\ err = "MissingDestinationFrame"
          /\ pc # "raised"

(***************************************************************************)
(* C17: for a region whose box has bbox_max.z >= bbox_min.z, the light is  *)
(* placed within the vertical extent of the room:                          *)
(* bbox_min.z <= z <= bbox_max.z.                                          *)
(***************************************************************************)
C17_LightWithinRoom ==
    pc \in {"extract", "query"} =>
        \A k \in 1 .. Len(lights) :
            LET region == NonJunkRegions[k]
                z == lights[k].position[3]
            IN  ~RLess(region.bbox_max[3], region.bbox_min[3]) =>
                    /\ ~RLess(z, region.bbox_min[3])
                    /\ ~RLess(region.bbox_max[3], z)

\* a closet 1 m high, lit 0.8 above its floor
C17_Witness ==
    /\ pc = "query"
    /\ \E k \in 1 .. Len(lights) :
          /\ lights[k].room_label = "c"
          /\ RSub(lights[k].ceiling_z, lights[k].floor_z) = <<1, 1>>
          /\ lights[k].position[3] = RAdd(lights[k].floor_z, <<4, 5>>)

(***************************************************************************)
(* C18: with a header box of positive extent on every axis and a           *)
(* destination box with min <= max, a light placed inside the header box   *)
(* is mapped by the rotation and the scaling inside the destination box.   *)
(***************************************************************************)
Inside(p, bmin, bmax) ==
    \A i \in 1 .. 3 : ~RLess(p[i], bmin[i]) /\ ~RLess(bmax[i], p[i])

ProperHeader == \A i \in 1 .. 3 : RLess(Header.bbox_min[i], Header.bbox_max[i])

OrderedMesh == \A i \in 1 .. 3 : ~RLess(Mesh.bbox_max[i], Mesh.bbox_min[i])

C18_InsideMapsInside ==
    pc = "create" /\ ProperHeader /\ OrderedMesh =>
        \A k \in 1 .. Len(lights) :
            Inside(lights[k].original_position, Header.bbox_min, Header.bbox_max)
                => Inside(lights[k].position, Mesh.bbox_min, Mesh.bbox_max)

\* a light inside the header box and off its centre, mapped off the centre
\* of the destination box
C18_Witness ==
    /\ pc = "create"
    /\ ProperHeader
    /\ OrderedMesh
    /\ \E k \in 1 .. Len(lights) :
          /\ Inside(lights[k].original_position, Header.bbox_min, Header.bbox_max)
          /\ lights[k].position # destCenter
          /\ Inside(lights[k].position, Mesh.bbox_min, Mesh.bbox_max)

(***************************************************************************)
(* Grouping alone: extract_light_positions applied to documents with       *)
(* several levels of the same index and regions on levels with and without *)
(* a level record.                                                         *)
(***************************************************************************)
MaxRegions == 3

SeqsUpTo(S, n) == UNION {[1 .. k -> S] : k \in 0 .. n}

GroupLevels ==
    {level_data(LLine(0, "ground")), level_data(LLine(0, "cellar")),
     level_data(LLine(1, "upper"))}

GroupRegions ==
    {region_data(RStairs), region_data(RKitchen),
     region_data(RLine(5, 7, "q", Vec(4, -4, 1), Vec(3, -5, 0), Vec(5, -3, 4), 4)),
     region_data(RLine(6, 2, "Z", Vec(1, 1, 1), Vec(0, 0, 0), Vec(2, 2, 2), 2))}

InitGroup ==
    /\ pc = "extract_begin"
    /\ line = <<>>
    /\ line_num = 0
    /\ \E doc_levels \in SeqsUpTo(GroupLevels, 2) :
       \E regions \in SeqsUpTo(GroupRegions, MaxRegions) :
          house_data = [EmptyHouse EXCEPT !.levels = doc_levels, !.regions = regions]
    /\ warnings = <<>>
    /\ region_i = 0
    /\ lights = <<>>
    /\ levels = <<>>
    /\ light_positions = <<>>
    /\ mesh_transform = <<>>
    /\ scaled_light_positions = <<>>
    /\ err = "none"
    /\ HostLoaded

NextGroup ==
    \/ ExtractBegin
    \/ ExtractRegion
    \/ ExtractReturn

SpecGroup == InitGroup /\ [][NextGroup]_vars

(***************************************************************************)
(* C15: the group of a light is named after the first level of the         *)
(* document with the level index of its region, and 'Level_<index>' when   *)
(* the document has no such level; the light is placed in it all the same, *)
(* and the groups stand in the order in which their level index was first  *)
(* met among the regions that are not junk.                                *)
(***************************************************************************)
RECURSIVE FirstLabel(_, _)
\* the label of the first level with the index, as a sequence of 0 or 1 names
FirstLabel(doc_levels, level_idx) ==
    IF doc_levels = <<>>
    THEN <<>>
    ELSE IF Head(doc_levels).level_index = level_idx
         THEN <<Head(doc_levels).label>>
         ELSE FirstLabel(Tail(doc_levels), level_idx)

ExpectedName(level_idx) ==
    IF FirstLabel(house_data.levels, level_idx) # <<>>
    THEN FirstLabel(house_data.levels, level_idx)[1]
    ELSE "Level_" \o ToString(level_idx)

C15_GroupNames ==
    Extracted =>
        LET order == FirstEncountered(NonJunkRegions, {})
        IN  /\ Len(levels) = Len(order)
            /\ \A g \in 1 .. Len(levels) :
                  /\ levels[g].level_idx = order[g]
                  /\ levels[g].level_name = ExpectedName(order[g])
                  /\ levels[g].lights = LightsOfLevel(NonJunkRegions, order[g], 1)
                  /\ order[g] = 7 /\ FirstLabel(house_data.levels, 7) = <<>> =>
                        levels[g].level_name = "Level_7"

\* two levels of index 0, a region on level 7 that no level record has, met
\* before a region on level 0
C15_Witness ==
    /\ pc = "query"
    /\ house_data.levels = <<level_data(LLine(0, "ground")), level_data(LLine(0, "cellar"))>>
    /\ Len(levels) = 2
    /\ levels[1].level_name = "Level_7" /\ Len(levels[1].lights) = 1
    /\ levels[2].level_name = "ground"

(***************************************************************************)
(* Alignment invoked twice: a caller passes the plan that                  *)
(* scale_light_positions returned to apply_matterport_rotation and         *)
(* scale_light_positions once more.                                        *)
(***************************************************************************)
\* apply_matterport_rotation(scaled_light_positions)
RealignRotation ==
    /\ pc = "create"
    /\ pc' = "rescale"
    /\ lights' = RotateAll(lights, Rebuild(levels))
    /\ light_positions' = <<CopyRebuilt(scaled_light_positions[1], levels)>>
    /\ UNCHANGED <<line, line_num, house_data, warnings, region_i, levels,
                   mesh_transform, scaled_light_positions, err>>
    /\ UNCHANGED host

\* scale_light_positions(light_positions, mesh_transform, house_data['header'])
RealignScale ==
    /\ pc = "rescale"
    /\ pc' = "realigned"
    /\ lights' = ScaleAll(lights, Rebuild(levels), mesh_transform[1], house_data.header[1])
    /\ scaled_light_positions' = <<CopyRebuilt(light_positions[1], levels)>>
    /\ UNCHANGED <<line, line_num, house_data, warnings, region_i, levels,
                   light_positions, mesh_transform, err>>
    /\ UNCHANGED host

NextRealign ==
    \/ ExtractBegin
    \/ ExtractRegion
    \/ ExtractReturn
    \/ GetHouseMeshTransform
    \/ ApplyMatterportRotation
    \/ ScaleLightPositions
    \/ RealignRotation
    \/ RealignScale

SpecRealign == InitAlign /\ [][NextRealign]_vars

(***************************************************************************)
(* C13: alignment invoked on a plan that is already aligned is flagged as  *)
(* a state violation and does not return a plan whose positions have been  *)
(* rotated and scaled a second time.  Neither function has such a guard:   *)
(* the second invocation rotates and scales the aligned positions again.   *)
(***************************************************************************)
AlignedOnce ==
    \A k \in 1 .. Len(lights) :
        lights[k].position =
            Remap(Rotated(Placement(NonJunkRegions[k])), permutedSourceSize)

C13_SecondAlignmentFlagged ==
    pc \in {"rescale", "realigned"} => err = "AlreadyAligned" /\ AlignedOnce

(***************************************************************************)
(* parse_house_file called twice on one file by the same instance: the     *)
(* second call comes after the first parse, or after the extraction that   *)
(* followed it.                                                            *)
(***************************************************************************)
MaxReplay == 3

ReplayLines ==
    {Blank, HNormal, LGround, RKitchen, RJunk, [RKitchen EXCEPT ![3] = Wrd("x")]}

Files == SeqsUpTo(ReplayLines, MaxReplay)

NewHouseData_Kept(old) == old

\* lines 146-151: every call builds its own house_data
NewHouseData(old) == EmptyHouse

InitTwice ==
    /\ pc = "parse"
    /\ line = <<>>
    /\ line_num = 0
    /\ house_data = EmptyHouse
    /\ warnings = <<>>
    /\ region_i = 0
    /\ lights = <<>>
    /\ levels = <<>>
    /\ light_positions = <<>>
    /\ mesh_transform = <<>>
    /\ scaled_light_positions = <<>>
    /\ err = "none"
    /\ files = [usd_file |-> TRUE, house_file |-> TRUE]
    /\ stage_loaded = TRUE
    /\ room_lights = <<>>
    /\ ambient_lights = <<>>
    /\ result = "none"
    /\ file \in Files
    /\ first_doc = <<>>

\* One iteration of the loop over the lines of the file on disk.
ParseFileLine ==
    /\ pc \in {"parse", "reparse"}
    /\ line_num < Len(file)
    /\ ReadLine(file[line_num + 1])
    /\ UNCHANGED <<pc, region_i, lights, levels, light_positions, mesh_transform,
                   scaled_light_positions, err>>
    /\ UNCHANGED host

\* End of the file on disk: parse_house_file returns house_data.
ParseFileReturn ==
    /\ pc \in {"parse", "reparse"}
    /\ line_num = Len(file)
    /\ pc' = IF pc = "parse" THEN "extract_begin" ELSE "reparsed"
    /\ line' = <<>>
    /\ line_num' = 0
    /\ UNCHANGED <<house_data, warnings, region_i, lights, levels, light_positions,
                   mesh_transform, scaled_light_positions, err>>
    /\ UNCHANGED host

\* The second call of parse_house_file, up to its loop.
ParseAgain ==
    /\ pc \in {"extract_begin", "query"}
    /\ pc' = "reparse"
    /\ first_doc' = <<house_data>>
    /\ house_data' = NewHouseData(house_data)
    /\ line' = <<>>
    /\ line_num' = 0
    /\ UNCHANGED <<warnings, region_i, lights, levels, light_positions,
                   mesh_transform, scaled_light_positions, err, files, stage_loaded,
                   room_lights, ambient_lights, result, file>>

NextTwice ==
    \/ ParseFileLine
    \/ ParseFileReturn
    \/ ExtractBegin
    \/ ExtractRegion
    \/ ExtractReturn
    \/ ParseAgain

SpecTwice == InitTwice /\ [][NextTwice]_vars

(***************************************************************************)
(* C14: parsing the same file content a second time yields a document      *)
(* equal to the first one (same header, same levels and same regions in    *)
(* the same order), whether the instance only parsed before or also        *)
(* extracted the light positions, and whatever warnings it printed.        *)
(***************************************************************************)
C14_SecondParseEqual ==
    pc = "reparsed" =>
        /\ house_data.header = first_doc[1].header
        /\ house_data.levels = first_doc[1].levels
        /\ house_data.regions = first_doc[1].regions

C14_Witness ==
    /\ pc = "reparsed"
    /\ lights # <<>>
    /\ warnings # <<>>
    /\ house_data.header # <<>>
    /\ Len(house_data.regions) >= 1
    /\ house_data = first_doc[1]

(***************************************************************************)
(* process_house as a whole: the files, the stage, the pipeline over the   *)
(* .house file, the room lights and the ambient lights.                    *)
(***************************************************************************)
InitHouse ==
    /\ pc = "find"
    /\ line = <<>>
    /\ line_num = 0
    /\ house_data = EmptyHouse
    /\ warnings = <<>>
    /\ region_i = 0
    /\ lights = <<>>
    /\ levels = <<>>
    /\ light_positions = <<>>
    /\ mesh_transform = <<>>
    /\ scaled_light_positions = <<>>
    /\ err = "none"
    /\ files = [usd_file |-> FALSE, house_file |-> FALSE]
    /\ stage_loaded = FALSE
    /\ room_lights = <<>>
    /\ ambient_lights = <<>>
    /\ result = "none"
    /\ file \in Files
    /\ first_doc = <<>>

\* lines 665-685: the two files are looked up; without a USD file
\* process_house returns False.
FindHouseFiles ==
    /\ pc = "find"
    /\ \E usd_file \in BOOLEAN : \E house_file \in BOOLEAN :
        /\ files' = [usd_file |-> usd_file, house_file |-> house_file]
        /\ IF ~usd_file
           THEN pc' = "returned" /\ result' = "False"
           ELSE pc' = "load" /\ result' = result
    /\ UNCHANGED <<line, line_num, house_data, warnings, region_i, lights, levels,
                   light_positions, mesh_transform, scaled_light_positions, err,
                   stage_loaded, room_lights, ambient_lights, file, first_doc>>

NextAfterLoad_Unchecked(loaded, house_file) ==
    IF house_file THEN "parse" ELSE "ambient"

\* lines 687-691 and 727-730: where process_house goes after load_usd_file
NextAfterLoad(loaded, house_file) ==
    IF ~loaded THEN "returned" ELSE IF house_file THEN "parse" ELSE "ambient"

\* load_usd_file returns True with the stage open, False otherwise.
LoadUsdFile ==
    /\ pc = "load"
    /\ \E loaded \in BOOLEAN :
        /\ stage_loaded' = loaded
        /\ pc' = NextAfterLoad(loaded, files.house_file)
        /\ result' = IF pc' = "returned" THEN "False" ELSE result
    /\ UNCHANGED <<line, line_num, house_data, warnings, region_i, lights, levels,
                   light_positions, mesh_transform, scaled_light_positions, err,
                   files, room_lights, ambient_lights, file, first_doc>>

\* create_matterport_lights: one light per entry of the groups of the plan;
\* a light whose creation raises is skipped (lines 580-620).
CreateMatterportLights ==
    /\ pc = "create"
    /\ pc' = "ambient"
    /\ \E total_lights \in 0 .. Len(Rebuild(levels)) : room_lights' = <<total_lights>>
    /\ UNCHANGED <<line, line_num, house_data, warnings, region_i, lights, levels,
                   light_positions, mesh_transform, scaled_light_positions, err,
                   files, stage_loaded, ambient_lights, result, file, first_doc>>

\* add_ambient_lighting adds the dome and the key light, as far as it gets,
\* and process_house returns True.
AddAmbientLighting ==
    /\ pc = "ambient"
    /\ pc' = "returned"
    /\ \E lights_added \in 0 .. Len(<<"AmbientDome", "KeyLight">>) :
          ambient_lights' = <<lights_added>>
    /\ result' = "True"
    /\ UNCHANGED <<line, line_num, house_data, warnings, region_i, lights, levels,
                   light_positions, mesh_transform, scaled_light_positions, err,
                   files, stage_loaded, room_lights, file, first_doc>>

NextHouse ==
    \/ FindHouseFiles
    \/ LoadUsdFile
    \/ ParseFileLine
    \/ ParseFileReturn
    \/ ExtractBegin
    \/ ExtractRegion
    \/ ExtractReturn
    \/ GetHouseMeshTransform
    \/ ApplyMatterportRotation
    \/ ScaleLightPositions
    \/ CreateMatterportLights
    \/ AddAmbientLighting

SpecHouse == InitHouse /\ [][NextHouse]_vars

\* Nothing of the .house file has been read and no plan exists.
NothingParsed ==
    /\ house_data = EmptyHouse
    /\ warnings = <<>>
    /\ line_num = 0
    /\ lights = <<>>
    /\ light_positions = <<>>
    /\ mesh_transform = <<>>
    /\ scaled_light_positions = <<>>

AllExtracted == region_i = 0 /\ Len(lights) = Len(NonJunkRegions)

NoneRotated == \A k \in 1 .. Len(lights) : lights[k].original_position = <<>>

AllRotated == \A k \in 1 .. Len(lights) : lights[k].original_position # <<>>

\* The steps of the pipeline, told by what they change.
ExtractStep == Len(lights') > Len(lights)

QueryStep == mesh_transform' # mesh_transform

RotateStep ==
    \E k \in 1 .. Len(lights) :
        lights[k].original_position = <<>> /\ lights'[k].original_position # <<>>

ScaledStep == scaled_light_positions' # scaled_light_positions

RoomLightsStep == room_lights' # room_lights

AmbientStep == ambient_lights' # ambient_lights

(***************************************************************************)
(* C16: in process_house no light is created before the stage has loaded.  *)
(* Without a USD file, or when load_usd_file returns False, it returns     *)
(* False with nothing parsed and no room or ambient light created.  With   *)
(* the stage loaded and no .house file it creates the ambient lights only  *)
(* and returns True.  With both files the steps come in the order parse,   *)
(* extract, query of the destination box, rotate, scale, room lights,      *)
(* ambient lights.                                                         *)
(***************************************************************************)
C16_ProcessHouseOrder ==
    [][/\ RoomLightsStep \/ AmbientStep => stage_loaded
       /\ result' = "False" =>
             /\ ~files.usd_file' \/ ~stage_loaded'
             /\ NothingParsed'
             /\ room_lights' = <<>> /\ ambient_lights' = <<>>
       /\ ~files.house_file' /\ result' = "True" =>
             /\ stage_loaded'
             /\ NothingParsed'
             /\ room_lights' = <<>> /\ ambient_lights' # <<>>
       /\ ~files.house_file => ~RoomLightsStep /\ ~LineRead
       /\ LineRead => stage_loaded /\ files.house_file /\ lights = <<>>
       /\ ExtractStep => line = <<>> /\ pc \notin {"find", "load", "parse"}
                            /\ mesh_transform = <<>> /\ NoneRotated
       /\ QueryStep => AllExtracted /\ NoneRotated
       /\ RotateStep => AllExtracted /\ pc \notin {"extract", "query"}
                            /\ scaled_light_positions = <<>>
       /\ ScaledStep => AllRotated /\ room_lights = <<>>
       /\ RoomLightsStep => scaled_light_positions # <<>> /\ ambient_lights = <<>>
       /\ AmbientStep /\ files.house_file => room_lights # <<>>
       /\ result' = "True" => ambient_lights' # <<>>
      ]_vars

C16_WitnessNoStage ==
    /\ result = "False"
    /\ files = [usd_file |-> TRUE, house_file |-> TRUE]
    /\ ~stage_loaded
    /\ Len(file) >= 1

C16_WitnessAmbientOnly ==
    /\ result = "True"
    /\ ~files.house_file
    /\ ambient_lights = <<2>>

C16_Witness ==
    /\ result = "True"
    /\ files.house_file
    /\ room_lights = <<2>>
    /\ ambient_lights = <<2>>
    /\ Len(house_data.regions) = 2

=============================================================================
